---- MODULE Spec2Model ----
(***************************************************************************)
(* Model of the point-cloud viewer in src/src/components/PointCloudViewer.js *)
(* (React component PointCloudViewer with its nested class LODManager).     *)
(*                                                                          *)
(* Point counts are measured in multiples of Unit.  The source's point-count *)
(* constants are all multiples of 50000:                                    *)
(*    batchSize 50000 = 1 Unit, progress-log interval 100000 = 2 Unit,       *)
(*    ladder budgets 2000000 .. 50000 = 40, 20, 10, 5, 2, 1 Unit,            *)
(*    decode ceiling 5000000 = 100 Unit.                                     *)
(* With Unit = 50000 the definitions below are the source's numbers; the     *)
(* model is checked with a small Unit so that buffers can be enumerated      *)
(* point by point.  Byte offsets and lengths are not scaled.                 *)
(* Camera distances are integers.                                            *)
(***************************************************************************)
EXTENDS Integers, Sequences, FiniteSets, TLC

\* ------------------------------------------------------------------ bounds
Unit == 1
MaxLoads == 2
MaxFrames == 2
MaxPoints == 24
MaxTotalPoints == 250
Spread == 2
FarDistance == 100000

\* JavaScript Infinity of the last ladder entry: larger than every distance
Infinity == 1000000000

Min(a, b) == IF a < b THEN a ELSE b
Max(a, b) == IF a > b THEN a ELSE b

\* ------------------------------------------------------------- LODManager
\* this.lodLevels (constructor)
lodLevels ==
  << [maxDistance |-> 50,       pointLimit |-> 40 * Unit, step |-> 1],
     [maxDistance |-> 100,      pointLimit |-> 20 * Unit, step |-> 2],
     [maxDistance |-> 200,      pointLimit |-> 10 * Unit, step |-> 4],
     [maxDistance |-> 500,      pointLimit |-> 5 * Unit,  step |-> 8],
     [maxDistance |-> 1000,     pointLimit |-> 2 * Unit,  step |-> 16],
     [maxDistance |-> Infinity, pointLimit |-> 1 * Unit,  step |-> 32] >>

\* the comparison of getLodLevelForDistance's loop body
distanceWithin_strict(distance, i) == distance < lodLevels[i + 1].maxDistance
distanceWithin(distance, i) == distance <= lodLevels[i + 1].maxDistance

RECURSIVE lodScan(_, _)
\* the for loop of getLodLevelForDistance from index i on (levels are 0-based)
lodScan(distance, i) ==
  IF i < Len(lodLevels)
    THEN IF distanceWithin(distance, i) THEN i ELSE lodScan(distance, i + 1)
    ELSE Len(lodLevels) - 1

getLodLevelForDistance(distance) == lodScan(distance, 0)

\* --------------------------------------------------------------- geometry
\* A BufferGeometry: its points in order (position and colour triples are
\* parallel, one point stands for both) and whether it has a colour attribute.
NullGeometry == [null |-> TRUE, pts |-> <<>>, color |-> FALSE]
Geometry(pts, color) == [null |-> FALSE, pts |-> pts, color |-> color]

\* a slot of a freshly allocated Float32Array (zero filled)
ZeroPoint == [load |-> 0, rec |-> 0, rgb |-> FALSE]
\* reading a typed array past its end gives undefined
UndefinedPoint == [load |-> 0, rec |-> -1, rgb |-> FALSE]

\* positions[sourceIndex] for a 0-based index
At(positions, index) ==
  IF index >= 0 /\ index < Len(positions) THEN positions[index + 1] ELSE UndefinedPoint

\* ------------------------------------------------------- applyLOD (pure)
\* batch size of the copy loop
batchSize == 1 * Unit

\* sampling interval of applyLOD
samplingStep(pointCount, pointLimit) == Max(1, pointCount \div pointLimit)

sampledCountOf(pointCount, step) == pointCount \div step

\* source index read for target point i
sourceIndexOf_shift(i, step) == i * step + 1
sourceIndexOf(i, step) == i * step

\* the inner for loop: target points batch..endBatch-1 are written
copyBatch(t, endBatch) ==
  [k \in 1..Len(t.newPositions) |->
     IF k - 1 >= t.batch /\ k - 1 < endBatch
       THEN At(t.positions, sourceIndexOf(k - 1, t.step))
       ELSE t.newPositions[k]]

\* the condition under which the loop waits on a timer after a batch
yieldsAfter(batch) == batch % (batchSize * 5) = 0

RECURSIVE loopStop(_, _)
\* where the outer for loop of applyLOD stops when entered at batch: the
\* batch after which it awaits the timer, or the first batch that fails the
\* loop condition
loopStop(batch, sampledCount) ==
  IF batch < sampledCount
    THEN IF yieldsAfter(batch) THEN batch
         ELSE loopStop(batch + batchSize, sampledCount)
    ELSE batch

\* the outer for loop of applyLOD, run from t.batch until it awaits the timer
\* (pc = "await") or the loop condition fails (pc = "done"): every batch up
\* to the stop is copied.
\* t.copied counts the points copied since the loop was last entered.
copyLoop(t) ==
  LET stop == loopStop(t.batch, t.sampledCount)
      awaits == stop < t.sampledCount
      endBatch == IF awaits THEN Min(stop + batchSize, t.sampledCount)
                  ELSE Max(t.batch, t.sampledCount)
  IN  [t EXCEPT !.newPositions = copyBatch(t, endBatch),
                !.copied = @ + (endBatch - t.batch),
                !.maxSource = IF endBatch > t.batch
                                THEN Max(@, sourceIndexOf(endBatch - 1, t.step))
                                ELSE @,
                !.batch = stop,
                !.pc = IF awaits THEN "await" ELSE "done"]

\* applyLOD from its first statement inside try up to the loop: the state of
\* the coroutine before the first batch
applyLODBegin(originalGeometry, level) ==
  LET lodConfig == lodLevels[level + 1]
      positions == originalGeometry.pts
      pointCount == Len(positions)
      step == samplingStep(pointCount, lodConfig.pointLimit)
      sampledCount == sampledCountOf(pointCount, step)
  IN  [pc |-> "run", positions |-> positions, hasColors |-> pointCount > 0,
       level |-> level, step |-> step, sampledCount |-> sampledCount,
       batch |-> 0, copied |-> 0, maxSource |-> -1,
       newPositions |-> [k \in 1..sampledCount |-> ZeroPoint]]

\* continuation after the timer fired: the for loop's update, then the loop
resumeLoop(t) == copyLoop([t EXCEPT !.batch = @ + batchSize, !.copied = 0, !.pc = "run"])

RECURSIVE runToEnd(_)
\* the whole copy, all timers fired
runToEnd(t) == IF t.pc = "done" THEN t ELSE runToEnd(resumeLoop(t))

\* ------------------------------------------------------------ LAS decoder
\* Math.min(header.totalPoints, 5000000)
maxInitialPointsOf(totalPoints) == Min(totalPoints, 100 * Unit)

\* Math.max(1, Math.floor(totalPoints / maxInitialPoints)); for totalPoints = 0
\* the quotient is NaN and the loop below does not run (0 stands for NaN)
decodeStep(totalPoints) ==
  IF maxInitialPointsOf(totalPoints) = 0 THEN 0
  ELSE Max(1, totalPoints \div maxInitialPointsOf(totalPoints))

\* [2, 3, 5, 6, 7, 8, 10].includes(pointDataFormat)
hasColorFormat(pointDataFormat) == pointDataFormat \in {2, 3, 5, 6, 7, 8, 10}

\* the switch on pointDataFormat (default 20)
colorOffsetOf(pointDataFormat) ==
  CASE pointDataFormat = 2 -> 20
    [] pointDataFormat = 3 -> 28
    [] pointDataFormat = 5 -> 28
    [] pointDataFormat = 6 -> 28
    [] pointDataFormat = 7 -> 28
    [] pointDataFormat = 8 -> 30
    [] pointDataFormat = 10 -> 28
    [] OTHER -> 20

\* DataView.getInt32 / getUint16 / getUint8 / getFloat64 throw a RangeError
\* unless [at, at + size) lies inside the buffer
readable(byteLength, at, size) == at >= 0 /\ at + size <= byteLength

\* the progress log `${maxPoints}`: maxPoints is not declared anywhere in the
\* component, so evaluating the template throws a ReferenceError inside try
progressLogThrows(i) == i > 0 /\ i % (2 * Unit) = 0

RECURSIVE decodeLoop(_, _, _, _)
\* the for loop of parseLASPoints from record index i on; any exception inside
\* try is caught and breaks the loop
decodeLoop(file, totalPoints, i, points) ==
  IF i < maxInitialPointsOf(totalPoints)
    THEN LET recordOffset == file.pointDataOffset + i * file.pointDataRecordLength
             colorAt == recordOffset + colorOffsetOf(file.pointDataFormat)
         IN  IF ~(/\ readable(file.byteLength, recordOffset, 4)
                  /\ readable(file.byteLength, recordOffset + 4, 4)
                  /\ readable(file.byteLength, recordOffset + 8, 4))
               THEN points
               ELSE LET point == [rec |-> i,
                                  rgb |-> /\ hasColorFormat(file.pointDataFormat)
                                          /\ colorAt + 6 < file.byteLength]
                        pushed == Append(points, point)
                    IN  IF progressLogThrows(i)
                          THEN pushed
                          ELSE decodeLoop(file, totalPoints, i + decodeStep(totalPoints), pushed)
    ELSE points

parseLASPoints(file, header) == decodeLoop(file, header.totalPoints, 0, <<>>)

\* Header words are unsigned 32-bit and JavaScript numbers are doubles, exact
\* on integers up to 2^53 = 2^32 * 2^21.  The model keeps the two widths and
\* their ratio in a smaller scale: a word has 8 bits and a number is exact on
\* integers up to 2^11 = 2^8 * 2^3.
WordBase == 2^8
ExactLimit == 2^11

RECURSIVE ulpOf(_, _)
\* the spacing of the representable numbers around x >= 0 (u is the spacing
\* tried so far)
ulpOf(x, u) == IF x < ExactLimit * u THEN u ELSE ulpOf(x, 2 * u)

\* the number nearest to the integer x >= 0, ties to the even mantissa
toNumber(x) ==
  LET u == ulpOf(x, 1)
      down == (x \div u) * u
      rest == x - down
  IN  IF 2 * rest < u THEN down
      ELSE IF 2 * rest > u THEN down + u
      ELSE IF (down \div u) % 2 = 0 THEN down ELSE down + u

\* extendedLow + (extendedHigh * 0x100000000): the product is exact, the sum
\* is rounded once
extendedNumberOfPointRecords(file) ==
  toNumber(file.extendedLow + file.extendedHigh * WordBase)

\* versionMajor !== 1 || versionMinor > 4
versionUnsupported_minorOnly(versionMajor, versionMinor) == versionMinor > 4
versionUnsupported(versionMajor, versionMinor) == versionMajor # 1 \/ versionMinor > 4

\* magic !== 'LASF'
magicMismatch_never(magic) == FALSE
magicMismatch(magic) == magic # "LASF"

\* the header's totalPoints
totalPointsOf(file) ==
  IF file.versionMajor = 1 /\ file.versionMinor >= 4
       /\ extendedNumberOfPointRecords(file) > 0
    THEN extendedNumberOfPointRecords(file)
    ELSE file.numberOfPointRecords

\* what parseLASHeader's try block throws, in the order of its statements
\* ("none" when it reaches its return)
headerThrows(file) ==
  IF ~readable(file.byteLength, 0, 4) THEN "RangeError"
  ELSE IF magicMismatch(file.magic) THEN "InvalidSignature"
  ELSE IF ~readable(file.byteLength, 25, 1) THEN "RangeError"
  ELSE IF versionUnsupported(file.versionMajor, file.versionMinor) THEN "UnsupportedVersion"
  ELSE IF ~readable(file.byteLength, 107, 4) THEN "RangeError"
  ELSE IF file.versionMajor = 1 /\ file.versionMinor >= 4
            /\ ~readable(file.byteLength, 251, 4) THEN "RangeError"
  ELSE IF ~readable(file.byteLength, 219, 8) THEN "RangeError"
  ELSE "none"

\* parseLASHeader: whatever is thrown is caught, logged and turned into null
\* (ok = FALSE); otherwise the header with its totalPoints
parseLASHeader(file) ==
  IF headerThrows(file) # "none"
    THEN [ok |-> FALSE, totalPoints |-> 0]
    ELSE [ok |-> TRUE, totalPoints |-> totalPointsOf(file)]

\* ------------------------------------------------------------------ files
\* What the user can pick.  A PLY file is described by what PLYLoader.parse
\* makes of it (it throws, or gives n vertices with or without colours); a
\* LAS file by its header fields and its length in bytes.  viewDistance is
\* the camera distance createPointCloud derives from the file's bounding
\* sphere (2 * radius on each axis).
PlyFile(n, color, parses, viewDistance) ==
  [ext |-> "ply", n |-> n, color |-> color, parses |-> parses, viewDistance |-> viewDistance]

LasFile(magic, minor, format, recordLength, count, byteLength, viewDistance) ==
  [ext |-> "las", magic |-> magic, versionMajor |-> 1, versionMinor |-> minor,
   pointDataFormat |-> format, pointDataRecordLength |-> recordLength,
   numberOfPointRecords |-> count, extendedLow |-> 0, extendedHigh |-> 0,
   pointDataOffset |-> 227, byteLength |-> byteLength, viewDistance |-> viewDistance]

OtherFile == [ext |-> "txt"]

\* a load record whose File is no longer referenced
NoFile == [ext |-> "-"]

Files ==
  { PlyFile(6, TRUE, TRUE, 5), PlyFile(4, FALSE, TRUE, 51),
    PlyFile(0, TRUE, FALSE, 5),
    LasFile("LASF", 2, 3, 34, 3, 227 + 3 * 34, 800),
    LasFile("LASF", 2, 3, 34, 0, 227, 5),
    LasFile("XXXX", 2, 3, 34, 3, 227 + 3 * 34, 5),
    OtherFile }

\* camera-to-target distances the orbit controls and createPointCloud produce
CameraDistances == {5, 51, 800}

\* ------------------------------------------------------------------ state
VARIABLES
  currentPointCloudRef,  \* currentPointCloudRef.current: 0 (null) or the id of a THREE.Points
  lodManager,            \* the LODManager's fields
  cloudGeometry,         \* .geometry of the THREE.Points lodManager.pointCloud refers to
  distance,              \* camera.position.distanceTo(controls.target)
  isLoading,             \* App's isLoading, driven by onLoadingChange
  loads,                 \* the loadPointCloud calls so far, in start order
  timers,                \* applyLOD coroutines suspended on their setTimeout
  hist,                  \* history: frames so far, applyLOD calls that passed their guard
                         \* (resamples), changes of the tier selected for the sampled
                         \* distance, and the previous updateLOD call: its distance and
                         \* whether it was ignored by the guard, found the same tier or
                         \* started an applyLOD
  hin,                   \* input of a pure-function run
  hout                   \* its result

vars == <<currentPointCloudRef, lodManager, cloudGeometry, distance, isLoading,
          loads, timers, hist, hin, hout>>

viewerVars == <<currentPointCloudRef, lodManager, cloudGeometry, distance, isLoading,
                loads, timers, hist>>

NoRun == [kind |-> "none"]

\* state after initThreeJS: new LODManager, camera at (0,0,5), target at origin
ViewerInit ==
  /\ currentPointCloudRef = 0
  /\ lodManager = [currentLodLevel |-> 0, pointCloud |-> 0,
                   originalGeometry |-> NullGeometry, isUpdating |-> FALSE]
  /\ cloudGeometry = NullGeometry
  /\ distance = 5
  /\ isLoading = FALSE
  /\ loads = <<>>
  /\ timers = <<>>
  /\ hist = [frames |-> 0, resamples |-> 0, tierChanges |-> 0, selected |-> 0,
             prevDistance |-> -1, prevCall |-> "none"]

Init == ViewerInit /\ hin = NoRun /\ hout = NoRun

\* ---------------------------------------------------- LODManager methods
\* the methods act on s = [lm, geom, timers, started]: the manager, the
\* geometry of its point cloud, the suspended coroutines, and whether an
\* applyLOD got past its guard during the call (history)

\* guard of updateLOD (first line)
updateGuard_noBusy(lm) == lm.pointCloud # 0 /\ ~lm.originalGeometry.null
updateGuard(lm) == lm.pointCloud # 0 /\ ~lm.originalGeometry.null /\ ~lm.isUpdating

\* guard of applyLOD (first line)
applyGuard(lm) == lm.pointCloud # 0 /\ ~lm.originalGeometry.null /\ ~lm.isUpdating

\* newLodLevel !== this.currentLodLevel
levelChanged_never(newLodLevel, currentLodLevel) == FALSE
levelChanged_always(newLodLevel, currentLodLevel) == TRUE
levelChanged(newLodLevel, currentLodLevel) == newLodLevel # currentLodLevel

\* a variant of the end of applyLOD without the finally block
applyLODFinish_keepsFlag(s, t) ==
  [s EXCEPT !.geom = Geometry(t.newPositions, t.hasColors)]

\* end of applyLOD: the new geometry replaces this.pointCloud.geometry, then
\* finally resets the flag
applyLODFinish(s, t) ==
  [s EXCEPT !.geom = Geometry(t.newPositions, t.hasColors),
            !.lm.isUpdating = FALSE]

\* a variant of applyLOD that samples the geometry on display instead of
\* the original
applyLOD_fromDisplayed(s) ==
  IF ~applyGuard(s.lm) THEN s
  ELSE IF ~s.geom.color
    THEN [s EXCEPT !.lm.isUpdating = FALSE, !.started = TRUE]
    ELSE LET t == copyLoop(applyLODBegin(s.geom, s.lm.currentLodLevel))
         IN  IF t.pc = "await"
               THEN [s EXCEPT !.lm.isUpdating = TRUE, !.started = TRUE,
                              !.timers = Append(@, t)]
               ELSE applyLODFinish([s EXCEPT !.started = TRUE], t)

\* applyLOD up to its first await or, without one, to its end
applyLOD(s) ==
  IF ~applyGuard(s.lm) THEN s
  ELSE IF ~s.lm.originalGeometry.color
    THEN \* attributes.color is undefined: TypeError, catch, finally
         [s EXCEPT !.lm.isUpdating = FALSE, !.started = TRUE]
    ELSE LET t == copyLoop(applyLODBegin(s.lm.originalGeometry, s.lm.currentLodLevel))
         IN  IF t.pc = "await"
               THEN [s EXCEPT !.lm.isUpdating = TRUE, !.started = TRUE,
                              !.timers = Append(@, t)]
               ELSE applyLODFinish([s EXCEPT !.started = TRUE], t)

updateLOD(s, d) ==
  IF ~updateGuard(s.lm) THEN s
  ELSE LET newLodLevel == getLodLevelForDistance(d)
       IN  IF levelChanged(newLodLevel, s.lm.currentLodLevel)
             THEN applyLOD([s EXCEPT !.lm.currentLodLevel = newLodLevel])
             ELSE s

\* a variant of setPointCloud that also goes back to level 0
setPointCloud_resetsLevel(lm, id, geometry) ==
  [lm EXCEPT !.pointCloud = id, !.originalGeometry = geometry, !.currentLodLevel = 0]

\* setPointCloud: the clone has the same content as the geometry
setPointCloud(lm, id, geometry) ==
  [lm EXCEPT !.pointCloud = id, !.originalGeometry = geometry]

Here == [lm |-> lodManager, geom |-> cloudGeometry, timers |-> timers, started |-> FALSE]

\* ---------------------------------------------------------------- actions
\* one animation frame: updateLOD with the current camera distance
animate ==
  /\ hist.frames < MaxFrames
  /\ LET s == updateLOD(Here, distance)
         tier == getLodLevelForDistance(distance)
     IN  /\ lodManager' = s.lm
         /\ cloudGeometry' = s.geom
         /\ timers' = s.timers
         /\ hist' = [hist EXCEPT !.frames = @ + 1,
                       !.resamples = @ + (IF s.started THEN 1 ELSE 0),
                       !.tierChanges = @ + (IF tier # hist.selected THEN 1 ELSE 0),
                       !.selected = tier,
                       !.prevDistance = distance,
                       !.prevCall = IF s.started THEN "started"
                                    ELSE IF updateGuard(lodManager) THEN "same"
                                    ELSE "ignored"]
  /\ UNCHANGED <<currentPointCloudRef, distance, isLoading, loads, hin, hout>>

\* the setTimeout of a suspended applyLOD fires: it runs to its next await or
\* to its end
timerFires ==
  /\ timers # <<>>
  /\ LET t == resumeLoop(Head(timers))
         rest == [Here EXCEPT !.timers = Tail(timers)]
         s == IF t.pc = "await" THEN [rest EXCEPT !.timers = Append(@, t)]
              ELSE applyLODFinish(rest, t)
     IN  /\ lodManager' = s.lm
         /\ cloudGeometry' = s.geom
         /\ timers' = s.timers
  /\ UNCHANGED <<currentPointCloudRef, distance, isLoading, loads, hist, hin, hout>>

\* the user turns or zooms the camera (OrbitControls)
orbit ==
  /\ \E d \in CameraDistances \ {distance} : distance' = d
  /\ UNCHANGED <<currentPointCloudRef, lodManager, cloudGeometry, isLoading,
                 loads, timers, hist, hin, hout>>

\* ------------------------------------------------------------------ loads
\* points of a load's geometry carry the id of the load that decoded them
plyPoints(id, file) == [k \in 1..file.n |-> [load |-> id, rec |-> k - 1, rgb |-> file.color]]

lasPoints(id, points) ==
  [k \in 1..Len(points) |-> [load |-> id, rec |-> points[k].rec, rgb |-> points[k].rgb]]

\* reader.onload of loadPLYFile: what it does for the file of load id:
\* whether createPointCloud ran, with which geometry, and whether the promise
\* resolved
plyOnload(id, file) ==
  IF file.parses
    THEN [created |-> TRUE, resolved |-> TRUE,
          geometry |-> Geometry(plyPoints(id, file), file.color)]
    ELSE [created |-> FALSE, resolved |-> FALSE, geometry |-> NullGeometry]

\* a variant of reader.onload of loadLASFile that checks for zero points only
\* after the point cloud has been created
lasOnload_lateCheck(id, file) ==
  LET header == parseLASHeader(file)
      points == parseLASPoints(file, header)
  IN  IF ~header.ok
        THEN [created |-> FALSE, resolved |-> FALSE, geometry |-> NullGeometry,
              error |-> "HeaderNotParsed", decoded |-> 0]
        ELSE [created |-> TRUE, resolved |-> Len(points) # 0,
              geometry |-> Geometry(lasPoints(id, points), TRUE),
              error |-> IF Len(points) = 0 THEN "NoPoints" ELSE "none",
              decoded |-> Len(points)]

\* points.length === 0
noPointsDecoded_never(points) == FALSE
noPointsDecoded(points) == Len(points) = 0

\* reader.onload of loadLASFile; error is the Error thrown inside its try
\* block (the promise is rejected with the fixed prefix followed by that
\* error's message), decoded the number of records parseLASPoints decoded
lasOnload(id, file) ==
  LET header == parseLASHeader(file)
      points == parseLASPoints(file, header)
  IN  IF ~header.ok
        THEN [created |-> FALSE, resolved |-> FALSE, geometry |-> NullGeometry,
              error |-> "HeaderNotParsed", decoded |-> 0]
      ELSE IF noPointsDecoded(points)
        THEN [created |-> FALSE, resolved |-> FALSE, geometry |-> NullGeometry,
              error |-> "NoPoints", decoded |-> 0]
        ELSE [created |-> TRUE, resolved |-> TRUE,
              geometry |-> Geometry(lasPoints(id, points), TRUE),
              error |-> "none", decoded |-> Len(points)]

\* file.name.split('.').pop().toLowerCase() is 'ply' or 'las'
supported(file) == file.ext \in {"ply", "las"}

\* loadPointCloud up to the start of the FileReader; an unsupported extension
\* throws at once, and finally reports loading = false in the same call
loadPointCloud(file) ==
  /\ Len(loads) < MaxLoads
  /\ IF supported(file)
       THEN /\ loads' = Append(loads, [file |-> file, status |-> "reading"])
            /\ isLoading' = TRUE
       ELSE /\ loads' = Append(loads, [file |-> NoFile, status |-> "rejected"])
            /\ isLoading' = FALSE
  /\ UNCHANGED <<currentPointCloudRef, lodManager, cloudGeometry, distance,
                 timers, hist, hin, hout>>

\* createPointCloud for the THREE.Points object id: the scene's and the
\* manager's references move to it and the camera is placed 2 * radius away
\* on each axis (d is the resulting distance to the centre)
createPointCloud(id, geometry, d) ==
  /\ currentPointCloudRef' = id
  /\ cloudGeometry' = geometry
  /\ lodManager' = setPointCloud(lodManager, id, geometry)
  /\ distance' = d

\* the FileReader of load l delivers the file: onload runs, the promise is
\* settled and loadPointCloud's finally reports loading = false
readerOnload(l) ==
  /\ loads[l].status = "reading"
  /\ LET file == loads[l].file
         r == IF file.ext = "ply" THEN plyOnload(l, file) ELSE lasOnload(l, file)
     IN  /\ IF r.created
              THEN createPointCloud(l, r.geometry, file.viewDistance)
              ELSE UNCHANGED <<currentPointCloudRef, cloudGeometry, lodManager, distance>>
         /\ loads' = [loads EXCEPT ![l] = [file |-> NoFile,
                                            status |-> IF r.resolved THEN "resolved" ELSE "rejected"]]
  /\ isLoading' = FALSE
  /\ UNCHANGED <<timers, hist, hin, hout>>

\* the FileReader of load l fails
readerOnerror(l) ==
  /\ loads[l].status = "reading"
  /\ loads' = [loads EXCEPT ![l] = [file |-> NoFile, status |-> "rejected"]]
  /\ isLoading' = FALSE
  /\ UNCHANGED <<currentPointCloudRef, lodManager, cloudGeometry, distance,
                 timers, hist, hin, hout>>

\* resetView: the point cloud leaves the scene and the camera goes home; the
\* LODManager is not told
resetView ==
  /\ currentPointCloudRef # 0
  /\ currentPointCloudRef' = 0
  /\ distance' = 5
  /\ UNCHANGED <<lodManager, cloudGeometry, isLoading, loads, timers, hist, hin, hout>>

startLoad == \E file \in Files : loadPointCloud(file)
fileRead == \E l \in 1..Len(loads) : readerOnload(l)
fileReadFails == \E l \in 1..Len(loads) : readerOnerror(l)

Next ==
  \/ animate
  \/ timerFires
  \/ orbit
  \/ startLoad
  \/ fileRead
  \/ fileReadFails
  \/ resetView

Spec == Init /\ [][Next]_vars

\* ------------------------------------------- runs of the pure functions
\* distances around every finite threshold of the ladder, zero and a far one
ProbeDistances ==
  {0, FarDistance} \cup
  { lodLevels[i].maxDistance + k : i \in 1..(Len(lodLevels) - 1), k \in (0 - Spread)..Spread }

InitTier ==
  /\ ViewerInit
  /\ hin \in {[kind |-> "tier", d1 |-> a, d2 |-> b] : a \in ProbeDistances, b \in ProbeDistances}
  /\ hout = NoRun

tierApply ==
  /\ hin.kind = "tier" /\ hout = NoRun
  /\ hout' = [kind |-> "tier", level1 |-> getLodLevelForDistance(hin.d1),
              level2 |-> getLodLevelForDistance(hin.d2)]
  /\ UNCHANGED <<viewerVars, hin>>

NextTier == tierApply

SpecTier == InitTier /\ [][NextTier]_vars

\* an original of n coloured points, resampled for one ladder entry with every
\* timer fired
InitResample ==
  /\ ViewerInit
  /\ hin \in {[kind |-> "resample", n |-> n, level |-> l] :
                n \in 0..MaxPoints, l \in 0..(Len(lodLevels) - 1)}
  /\ hout = NoRun

resampleApply ==
  /\ hin.kind = "resample" /\ hout = NoRun
  /\ LET original == Geometry(plyPoints(1, PlyFile(hin.n, TRUE, TRUE, 5)), TRUE)
         t == runToEnd(copyLoop(applyLODBegin(original, hin.level)))
     IN  hout' = [kind |-> "resample", newPositions |-> t.newPositions,
                  maxSource |-> t.maxSource]
  /\ UNCHANGED <<viewerVars, hin>>

NextResample == resampleApply

SpecResample == InitResample /\ [][NextResample]_vars

\* a LAS 1.2 file of format 3 whose header declares n records and whose
\* buffer holds them all
FullLasFile(n) == LasFile("LASF", 2, 3, 34, n, 227 + n * 34, 5)

InitDecode ==
  /\ ViewerInit
  /\ hin \in {[kind |-> "decode", file |-> FullLasFile(n)] : n \in 0..MaxTotalPoints}
  /\ hout = NoRun

decodeApply ==
  /\ hin.kind = "decode" /\ hout = NoRun
  /\ LET header == parseLASHeader(hin.file)
     IN  hout' = [kind |-> "decode", ok |-> header.ok,
                  totalPoints |-> header.totalPoints,
                  step |-> decodeStep(header.totalPoints),
                  points |-> parseLASPoints(hin.file, header)]
  /\ UNCHANGED <<viewerVars, hin>>

NextDecode == decodeApply

SpecDecode == InitDecode /\ [][NextDecode]_vars

\* ================================================================= claims
frameStep == hist'.frames # hist.frames

\* C1: at most one applyLOD is in progress at any time, and an updateLOD call
\* that arrives while isUpdating is true starts no resample and changes
\* neither the manager (currentLodLevel included) nor the displayed geometry.
C1_OneResampleAtATime ==
  /\ [](Len(timers) <= 1 /\ (Len(timers) = 1 => lodManager.isUpdating))
  /\ [][(frameStep /\ lodManager.isUpdating) =>
          (/\ lodManager' = lodManager
           /\ cloudGeometry' = cloudGeometry
           /\ timers' = timers
           /\ hist'.resamples = hist.resamples)]_vars

\* a frame was ignored during a resample although the camera had crossed
\* into another tier
C1_Witness ==
  /\ lodManager.isUpdating
  /\ Len(timers) = 1
  /\ hist.prevCall = "ignored"
  /\ hist.selected # lodManager.currentLodLevel

\* every st-th point of an original, from its first
Strided(original, st) == [k \in 1..(Len(original) \div st) |-> original[(k - 1) * st + 1]]

\* C2: in every reachable state the displayed buffer is the full currently
\* attached original or a strided copy of that same original (a resample that
\* was suspended when a new point set was attached never installs its result).
C2_DisplayedIsOfAttachedOriginal ==
  lodManager.pointCloud # 0 =>
    \/ cloudGeometry.pts = lodManager.originalGeometry.pts
    \/ \E st \in 1..Max(1, Len(lodManager.originalGeometry.pts)) :
         cloudGeometry.pts = Strided(lodManager.originalGeometry.pts, st)

\* C3: once every file read has finished, the displayed point set and the
\* manager's original buffers are those of the most recently started load
\* (stated for a latest load that resolved).
C3_LatestLoadWins ==
  ( /\ Len(loads) >= 2
    /\ \A l \in 1..Len(loads) : loads[l].status # "reading"
    /\ loads[Len(loads)].status = "resolved" )
  => /\ lodManager.pointCloud = Len(loads)
     /\ \A k \in 1..Len(lodManager.originalGeometry.pts) :
          lodManager.originalGeometry.pts[k].load = Len(loads)
     /\ \A k \in 1..Len(cloudGeometry.pts) : cloudGeometry.pts[k].load = Len(loads)

\* C4: a load that ends rejected leaves the scene's point cloud and the
\* manager's pointCloud, originalGeometry and currentLodLevel as they were;
\* the manager is attached to a new point cloud only by a load that resolves.
C4_FailedLoadChangesNothing ==
  /\ [][(\E l \in 1..Len(loads') :
            /\ loads'[l].status = "rejected"
            /\ (l > Len(loads) \/ loads[l].status = "reading"))
          => UNCHANGED <<currentPointCloudRef, lodManager, cloudGeometry>>]_vars
  /\ [][(lodManager'.pointCloud # lodManager.pointCloud
           \/ lodManager'.originalGeometry # lodManager.originalGeometry)
          => \E l \in 1..Len(loads) :
               /\ loads[l].status = "reading" /\ loads'[l].status = "resolved"
               /\ lodManager'.pointCloud = l]_vars

\* a load was rejected after an earlier one had put its point cloud on display
C4_Witness ==
  /\ Len(loads) = 2
  /\ loads[1].status = "resolved" /\ loads[2].status = "rejected"
  /\ currentPointCloudRef = 1 /\ lodManager.pointCloud = 1
  /\ ~lodManager.originalGeometry.null

\* C5: an applyLOD is started only when the tier selected for the sampled
\* distance differs from currentLodLevel; an updateLOD call at the distance of
\* the previous call, which started a resample, starts none; and the resamples
\* started never outnumber the changes of the selected tier.
C5_ResampleOnlyOnTierChange ==
  /\ [](hist.resamples <= hist.tierChanges)
  /\ [][hist'.resamples # hist.resamples =>
          (/\ frameStep
           /\ hist'.resamples = hist.resamples + 1
           /\ getLodLevelForDistance(distance) # lodManager.currentLodLevel)]_vars
  /\ [][(frameStep /\ hist.prevCall = "started" /\ hist.prevDistance = distance)
          => hist'.resamples = hist.resamples]_vars

\* two calls in a row at one distance: the first started a resample, the
\* second got past the guard and found the tier unchanged
C5_Witness ==
  /\ hist.frames = 2 /\ hist.resamples = 1 /\ hist.tierChanges = 1
  /\ hist.prevCall = "same"
  /\ ~lodManager.isUpdating

\* C9: between two yields of one applyLOD, and between its start and its
\* first yield, at most one batch of batchSize points is copied.
C9_OneBatchBetweenYields ==
  \A k \in 1..Len(timers) : timers[k].copied <= batchSize

\* the ladder entries that cover a distance
Covering(d) == {i \in 0..(Len(lodLevels) - 1) : lodLevels[i + 1].maxDistance >= d}

\* C6: getLodLevelForDistance returns the smallest index whose maxDistance is
\* >= the distance; the result lies in [0, ladder length - 1] and is
\* non-decreasing in the distance.
C6_FirstMatchingTier ==
  hout.kind = "tier" =>
    /\ hout.level1 \in Covering(hin.d1)
    /\ \A i \in Covering(hin.d1) : hout.level1 <= i
    /\ hout.level1 \in 0..(Len(lodLevels) - 1)
    /\ (hin.d1 <= hin.d2 => hout.level1 <= hout.level2)

\* a distance equal to a threshold, next to one just above it
C6_Witness ==
  /\ hout.kind = "tier"
  /\ hin.d1 = lodLevels[1].maxDistance /\ hin.d2 = lodLevels[1].maxDistance + 1
  /\ hout.level1 = 0 /\ hout.level2 = 1

\* C7: a completed applyLOD on n points for a tier of budget b produces
\* floor(n / stride) points with stride = max(1, floor(n / b)); output point i
\* is original point i * stride, every source index read is < n, and the
\* order is kept (n = 10,000,000: b = 1,000,000 gives stride 10 and
\* 1,000,000 points, b = 50,000 gives stride 200 and 50,000 points).
C7_StridedCopy ==
  /\ hout.kind = "resample" =>
       LET n == hin.n
           b == lodLevels[hin.level + 1].pointLimit
           stride == IF n \div b >= 1 THEN n \div b ELSE 1
           count == n \div stride
       IN  /\ Len(hout.newPositions) = count
           /\ \A i \in 0..(count - 1) :
                hout.newPositions[i + 1] = [load |-> 1, rec |-> i * stride, rgb |-> TRUE]
           /\ hout.maxSource < n
           /\ \A i \in 1..(count - 1) :
                hout.newPositions[i].rec < hout.newPositions[i + 1].rec
  /\ samplingStep(10000000, 1000000) = 10
  /\ sampledCountOf(10000000, samplingStep(10000000, 1000000)) = 1000000
  /\ samplingStep(10000000, 50000) = 200
  /\ sampledCountOf(10000000, samplingStep(10000000, 50000)) = 50000

\* a resample with a stride above 1 that copied more than one point
C7_Witness ==
  /\ hout.kind = "resample"
  /\ hin.n \div lodLevels[hin.level + 1].pointLimit >= 2
  /\ Len(hout.newPositions) >= 2
  /\ hout.newPositions[2].rec >= 2

\* C8: for 1 <= budget <= n the sampled count satisfies
\* budget / 2 < sampledCount <= budget.
C8_CountWithinBudget ==
  hout.kind = "resample" =>
    LET n == hin.n
        budget == lodLevels[hin.level + 1].pointLimit
        sampledCount == Len(hout.newPositions)
    IN  (1 <= budget /\ budget <= n) =>
          (budget < 2 * sampledCount /\ sampledCount <= budget)

\* C10: when the point count N exceeds the decode ceiling M, parseLASPoints
\* uses stride = ceil(N / M) and visits exactly the record indices
\* 0, stride, 2 * stride, ... below N, so that the last visited index is
\* >= N - stride.
C10_StrideSpansWholeFile ==
  hout.kind = "decode" =>
    LET N == hout.totalPoints
        M == 100 * Unit
        stride == (N + M - 1) \div M
        visited == {hout.points[k].rec : k \in 1..Len(hout.points)}
    IN  N > M =>
          /\ hout.step = stride
          /\ visited = {i \in 0..(N - 1) : i % stride = 0}
          /\ \E i \in visited : i >= N - stride /\ \A j \in visited : j <= i

\* C11: for a header whose effective point count N is at most the decode
\* ceiling and a buffer that holds all N records, parseLASPoints uses stride 1
\* and returns exactly N points, one per record index 0..N-1 in order.
C11_AllRecordsBelowCeiling ==
  hout.kind = "decode" =>
    LET N == hout.totalPoints
    IN  (hout.ok /\ N <= 100 * Unit /\ hin.file.byteLength >= 227 + N * 34) =>
          /\ (N >= 1 => hout.step = 1)
          /\ Len(hout.points) = N
          /\ \A k \in 1..Len(hout.points) : hout.points[k].rec = k - 1

\* ------------------------------------------------- record contents, colours
\* A colour component is a quotient of two integers (den = 0 stands for the
\* NaN or infinity of a division by zero).
Quotient(num, den) == [num |-> num, den |-> den]

\* red / 65535.0
normalized(raw) == Quotient(raw, 65535)

\* positions[i3 + 2] = point.z * header.zScale + header.zOffset
positionZ(data) == data.z * data.zScale + data.zOffset

\* (positions[i3 + 2] - header.minZ) / (header.maxZ - header.minZ)
normalizedHeight(data) == Quotient(positionZ(data) - data.minZ, data.maxZ - data.minZ)

\* the colour triple loadLASFile stores for a decoded point: the record's
\* normalised red, green, blue when parseLASPoints read them, else the
\* height gradient (normalizedHeight, 1.0 - normalizedHeight, 0.5)
colorOf(point, data) ==
  IF point.rgb
    THEN << normalized(data.red), normalized(data.green), normalized(data.blue) >>
    ELSE LET t == normalizedHeight(data)
         IN  << t, Quotient(t.den - t.num, t.den), Quotient(1, 2) >>

\* the positions and colors arrays loadLASFile fills from the decoded points
lasArrays(points, data) ==
  [positionsLength |-> Len(points) * 3,
   colorsLength |-> Len(points) * 3,
   colors |-> [k \in 1..Len(points) |-> colorOf(points[k], data)]]

\* LAS 1.2 files of formats 0, 2 and 3 that declare up to Spread + 1 records
\* and whose buffer ends anywhere from the start of the point data to the
\* end of the last declared record
RecordLengthOf(format) == CASE format = 0 -> 20 [] format = 2 -> 26 [] OTHER -> 34

TruncatedFiles ==
  { LasFile("LASF", 2, format, RecordLengthOf(format), count, 227 + rest, 5) :
      <<format, count, rest>> \in
        { t \in {0, 2, 3} \X (0..(Spread + 1)) \X (0..((Spread + 1) * 34)) :
            t[3] <= t[2] * RecordLengthOf(t[1]) } }

\* what the records and the header's scale, offset and bounds hold (every
\* record of a file holds the same values)
RecordData ==
  [z : {-1, 0, 1, 2}, zScale : {1}, zOffset : {0}, minZ : {0, 1}, maxZ : {0, 1},
   red : {0, 65535}, green : {65535}, blue : {0}]

InitRecords ==
  /\ ViewerInit
  /\ hin \in {[kind |-> "records", file |-> f, data |-> d] :
                f \in TruncatedFiles, d \in RecordData}
  /\ hout = NoRun

\* reader.onload of loadLASFile applied to the file: the decoded points, the
\* arrays built from them and what became of the load
recordsApply ==
  /\ hin.kind = "records" /\ hout = NoRun
  /\ LET header == parseLASHeader(hin.file)
         points == parseLASPoints(hin.file, header)
         r == lasOnload(1, hin.file)
     IN  hout' = [kind |-> "records", ok |-> header.ok, points |-> points,
                  arrays |-> lasArrays(points, hin.data),
                  created |-> r.created, resolved |-> r.resolved,
                  error |-> r.error]
  /\ UNCHANGED <<viewerVars, hin>>

NextRecords == recordsApply

SpecRecords == InitRecords /\ [][NextRecords]_vars

\* C12: parseLASPoints stops at the first visited record whose byte range
\* [dataOffset + i * recordLength, dataOffset + (i + 1) * recordLength)
\* extends past the end of the buffer: that record and the later ones give no
\* point, the earlier ones are returned, and no error is raised.
C12_StopsAtFirstRecordPastEnd ==
  hout.kind = "records" =>
    LET f == hin.file
        whole == (f.byteLength - f.pointDataOffset) \div f.pointDataRecordLength
        expected == IF whole < f.numberOfPointRecords THEN whole ELSE f.numberOfPointRecords
    IN  /\ hout.ok
        /\ Len(hout.points) = expected
        /\ \A k \in 1..Len(hout.points) : hout.points[k].rec = k - 1

\* C13: for a decoded record of a colour-bearing format the colour is read
\* from the record exactly when the 6 bytes at recordOffset + colorOffset lie
\* entirely inside the buffer (ending at the last byte included); otherwise,
\* and for a format without colour, the point is emitted with the height
\* gradient (t, 1 - t, 0.5), and decoding goes on to the next record.
C13_ColourReadWhenFieldInsideBuffer ==
  hout.kind = "records" =>
    LET f == hin.file
        recordOffset(i) == f.pointDataOffset + i * f.pointDataRecordLength
        fieldInside(i) ==
          recordOffset(i) + colorOffsetOf(f.pointDataFormat) + 6 <= f.byteLength
        t == normalizedHeight(hin.data)
    IN  /\ \A k \in 1..Len(hout.points) :
             LET i == hout.points[k].rec
             IN  IF hasColorFormat(f.pointDataFormat) /\ fieldInside(i)
                   THEN hout.arrays.colors[k] =
                          << normalized(hin.data.red), normalized(hin.data.green),
                             normalized(hin.data.blue) >>
                   ELSE hout.arrays.colors[k] =
                          << t, Quotient(t.den - t.num, t.den), Quotient(1, 2) >>
        /\ \A i \in 0..(f.numberOfPointRecords - 1) :
             recordOffset(i) + 12 <= f.byteLength =>
               \E k \in 1..Len(hout.points) : hout.points[k].rec = i

\* a colour component within [0, 1]
inUnitInterval(c) ==
  \/ c.den > 0 /\ 0 <= c.num /\ c.num <= c.den
  \/ c.den < 0 /\ c.den <= c.num /\ c.num <= 0

\* C14: a point set produced by a successful LAS load has position and colour
\* arrays of equal length, 3 times the point count, and every colour
\* component lies in [0, 1], whatever the raw z and the header's minZ/maxZ.
C14_ColoursWithinUnitInterval ==
  (hout.kind = "records" /\ hout.created) =>
    /\ hout.arrays.positionsLength = 3 * Len(hout.points)
    /\ hout.arrays.colorsLength = hout.arrays.positionsLength
    /\ \A k \in 1..Len(hout.points) :
         \A j \in 1..3 : inUnitInterval(hout.arrays.colors[k][j])

\* C15: when the decode loop produces zero points (effective count 0, or the
\* first record already out of range) the load fails with the no-points error
\* and no point cloud is created or attached.
C15_ZeroPointsFailsLoad ==
  (hout.kind = "records" /\ hout.ok /\ Len(hout.points) = 0) =>
    /\ ~hout.created
    /\ ~hout.resolved
    /\ hout.error = "NoPoints"

\* a file that declares records but whose buffer ends before the first
\* record's coordinates
C15_Witness ==
  /\ hout.kind = "records"
  /\ hin.file.numberOfPointRecords >= 1
  /\ hin.file.byteLength < hin.file.pointDataOffset + 12
  /\ Len(hout.points) = 0
  /\ hout.error = "NoPoints" /\ ~hout.created

\* ------------------------------------------------------ header variations
\* LAS buffers with a right or wrong signature, any version byte pair around
\* the supported range, a length that ends before, inside or after the header
\* region, and any extended point count around the exact range of a number
HeaderFiles ==
  { [FullLasFile(count) EXCEPT !.magic = magic, !.versionMajor = major,
                               !.versionMinor = minor, !.byteLength = byteLength,
                               !.extendedLow = low, !.extendedHigh = high] :
      <<magic, major, minor, byteLength, count, low, high>> \in
        {"LASF", "LASf", "XXXX"} \X {0, 1, 2} \X (0..5)
          \X {4, 24, 26, 111, 226, 227, 254, 255, 227 + 3 * 34}
          \X {0, 3} \X {0, 1, WordBase - 1}
          \X {0, 1, ExactLimit \div WordBase, ExactLimit \div WordBase + 1} }

InitHeader ==
  /\ ViewerInit
  /\ hin \in {[kind |-> "header", file |-> f] : f \in HeaderFiles}
  /\ hout = NoRun

\* reader.onload of loadLASFile applied to the buffer: what parseLASHeader
\* threw and returned, and what became of the load
headerApply ==
  /\ hin.kind = "header" /\ hout = NoRun
  /\ LET header == parseLASHeader(hin.file)
         r == lasOnload(1, hin.file)
     IN  hout' = [kind |-> "header", thrown |-> headerThrows(hin.file),
                  ok |-> header.ok, totalPoints |-> header.totalPoints,
                  created |-> r.created, resolved |-> r.resolved,
                  error |-> r.error, decoded |-> r.decoded]
  /\ UNCHANGED <<viewerVars, hin>>

NextHeader == headerApply

SpecHeader == InitHeader /\ [][NextHeader]_vars

\* C16: for a buffer whose first 4 bytes are not LASF, header parsing fails
\* with the invalid-signature error and the load is rejected before any
\* record is decoded.
C16_WrongSignatureRejected ==
  (hout.kind = "header" /\ hin.file.byteLength >= 4 /\ hin.file.magic # "LASF") =>
    /\ hout.thrown = "InvalidSignature"
    /\ ~hout.ok
    /\ ~hout.created /\ ~hout.resolved
    /\ hout.decoded = 0

\* a wrong signature in front of an otherwise acceptable, complete file
C16_Witness ==
  /\ hout.kind = "header"
  /\ hin.file.magic = "LASf"
  /\ hin.file.versionMajor = 1 /\ hin.file.versionMinor = 2
  /\ hin.file.numberOfPointRecords = 3 /\ hin.file.byteLength = 227 + 3 * 34
  /\ hout.thrown = "InvalidSignature" /\ ~hout.resolved

\* C17: header parsing fails with the unsupported-version error exactly when
\* versionMajor # 1 or versionMinor is outside 0..4; a header with major 1,
\* minor in 0..4, a valid signature and sufficient length is accepted.
C17_UnsupportedVersionExactly ==
  hout.kind = "header" =>
    LET f == hin.file
        outside == f.versionMajor # 1 \/ f.versionMinor \notin 0..4
    IN  /\ (f.magic = "LASF" /\ f.byteLength >= 26) =>
             (hout.thrown = "UnsupportedVersion" <=> outside)
        /\ hout.thrown = "UnsupportedVersion" => (outside /\ ~hout.ok)
        /\ (/\ f.magic = "LASF" /\ ~outside
            /\ f.byteLength >= (IF f.versionMinor >= 4 THEN 255 ELSE 227)) => hout.ok

\* a supported minor under an unsupported major
C17_Witness ==
  /\ hout.kind = "header"
  /\ hin.file.magic = "LASF"
  /\ hin.file.versionMajor = 2 /\ hin.file.versionMinor = 2
  /\ hout.thrown = "UnsupportedVersion" /\ ~hout.ok

\* C19: the effective point count equals low + high * 2^32 of the extended
\* count whenever versionMinor >= 4 and that value is non-zero, and the
\* 32-bit header count in every other case.
C19_EffectivePointCount ==
  (hout.kind = "header" /\ hout.ok) =>
    LET f == hin.file
        extended == f.extendedLow + f.extendedHigh * WordBase
    IN  hout.totalPoints =
          IF f.versionMinor >= 4 /\ extended # 0 THEN extended
          ELSE f.numberOfPointRecords

\* ------------------------------------------------------- failure reasons
\* the reason the promise of loadLASFile is rejected with, which
\* loadPointCloud rethrows to its caller unchanged: the fixed prefix followed
\* by the message of the error thrown in reader.onload ("none": resolved)
loadFailureReason(file) == lasOnload(1, file).error

\* buffers that fail in the header in each way, that fail with no points,
\* and that load
ReasonFiles ==
  { FullLasFile(3),
    FullLasFile(0),
    [FullLasFile(3) EXCEPT !.magic = "XXXX"],
    [FullLasFile(3) EXCEPT !.magic = "LASf"],
    [FullLasFile(3) EXCEPT !.versionMajor = 2],
    [FullLasFile(3) EXCEPT !.versionMinor = 5],
    [FullLasFile(3) EXCEPT !.byteLength = 100],
    [FullLasFile(3) EXCEPT !.byteLength = 2],
    [FullLasFile(3) EXCEPT !.versionMinor = 4, !.byteLength = 250] }

InitReasons ==
  /\ ViewerInit
  /\ hin \in {[kind |-> "reasons", file1 |-> f, file2 |-> g] :
                f \in ReasonFiles, g \in ReasonFiles}
  /\ hout = NoRun

\* two loads, one of each buffer: what the header parser threw and the
\* reason the caller of loadPointCloud was given
reasonsApply ==
  /\ hin.kind = "reasons" /\ hout = NoRun
  /\ hout' = [kind |-> "reasons",
              thrown1 |-> headerThrows(hin.file1),
              reason1 |-> loadFailureReason(hin.file1),
              thrown2 |-> headerThrows(hin.file2),
              reason2 |-> loadFailureReason(hin.file2)]
  /\ UNCHANGED <<viewerVars, hin>>

NextReasons == reasonsApply

SpecReasons == InitReasons /\ [][NextReasons]_vars

\* C18: a header-level failure reaches the caller of loadPointCloud as a load
\* failure whose reason identifies the error kind: a signature mismatch, an
\* unsupported version and a buffer too short for the header give
\* distinguishable reasons.
C18_HeaderFailureReasonsDistinct ==
  hout.kind = "reasons" =>
    /\ (hout.thrown1 # "none" => hout.reason1 # "none")
    /\ (hout.thrown1 # "none" /\ hout.thrown2 # "none" /\ hout.thrown1 # hout.thrown2)
         => hout.reason1 # hout.reason2

\* ------------------------------------------- colour mapping, by call site
\* a `let colorOffset;` that no case of the switch assigns
Undefined == -1

\* the older Three.js decoder: if (pointDataFormat >= 2)
hasColorFormat_older(pointDataFormat) == pointDataFormat >= 2

\* the older Three.js decoder's switch (no default)
colorOffsetOf_older(pointDataFormat) ==
  CASE pointDataFormat = 2 -> 20
    [] pointDataFormat = 3 -> 28
    [] pointDataFormat = 5 -> 28
    [] pointDataFormat = 6 -> 20
    [] pointDataFormat = 7 -> 28
    [] pointDataFormat = 8 -> 30
    [] pointDataFormat = 10 -> 20
    [] OTHER -> Undefined

\* the Cesium decoder: if (pointDataFormat >= 2)
hasColorFormat_cesium(pointDataFormat) == pointDataFormat >= 2

\* the Cesium decoder's getColorOffset
getColorOffset(pointDataFormat) ==
  CASE pointDataFormat = 2 -> 20
    [] pointDataFormat = 3 -> 20
    [] pointDataFormat = 5 -> 20
    [] pointDataFormat = 6 -> 20
    [] pointDataFormat = 7 -> 20
    [] pointDataFormat = 8 -> 30
    [] pointDataFormat = 10 -> 20
    [] OTHER -> 20

\* recordOffset + colorOffset + 6 < dataView.byteLength, the guard all three
\* decoders share; with an undefined colorOffset the sum is NaN and the
\* comparison is false.  The result is the byte the colour is read at, or
\* Undefined when it is not read.
colorReadAt(present, colorOffset, recordOffset, byteLength) ==
  IF present /\ colorOffset # Undefined /\ recordOffset + colorOffset + 6 < byteLength
    THEN recordOffset + colorOffset
    ELSE Undefined

\* one record at the start of the point data, of a format code 0..10, in a
\* buffer that ends around the ends of the candidate colour fields
InitFormat ==
  /\ ViewerInit
  /\ hin \in {[kind |-> "format", pointDataFormat |-> f, recordOffset |-> 227,
               byteLength |-> 227 + rest] :
                f \in 0..10, rest \in {20, 26, 27, 34, 35, 36, 37}}
  /\ hout = NoRun

\* each decoder's colour decision for the record
formatApply ==
  /\ hin.kind = "format" /\ hout = NoRun
  /\ LET f == hin.pointDataFormat
         site(present, offset) ==
           [present |-> present,
            colorOffset |-> IF present THEN offset ELSE Undefined,
            readAt |-> colorReadAt(present, offset, hin.recordOffset, hin.byteLength)]
     IN  hout' = [kind |-> "format",
                  viewer |-> site(hasColorFormat(f), colorOffsetOf(f)),
                  older |-> site(hasColorFormat_older(f), colorOffsetOf_older(f)),
                  cesium |-> site(hasColorFormat_cesium(f), getColorOffset(f))]
  /\ UNCHANGED <<viewerVars, hin>>

NextFormat == formatApply

SpecFormat == InitFormat /\ [][NextFormat]_vars

\* C20: the mapping from format code to (has colour, colour byte offset) is
\* one function: PointCloudViewer's parseLASPoints, the older Three.js
\* parseLASPoints and the Cesium getColorOffset give the same colour presence
\* and the same offset for every format code 0..10.
C20_OneColourMapping ==
  hout.kind = "format" =>
    /\ hout.viewer.present = hout.older.present
    /\ hout.older.present = hout.cesium.present
    /\ hout.viewer.colorOffset = hout.older.colorOffset
    /\ hout.older.colorOffset = hout.cesium.colorOffset

\* the byte offset of the red channel in the published point data record
\* formats: format 2 is format 0 (20 bytes) followed by RGB, formats 3 and 5
\* are format 1 (28 bytes) followed by RGB, formats 7, 8 and 10 start with
\* format 6 (30 bytes) followed by RGB
PublishedColorOffset(pointDataFormat) ==
  CASE pointDataFormat = 2 -> 20
    [] pointDataFormat \in {3, 5} -> 28
    [] pointDataFormat \in {7, 8, 10} -> 30

\* C21: for each colour-bearing record format the decoder reads the RGB
\* triplet at the byte offset the published record layout assigns to it
\* (format 2: 20; formats 3, 5: 28; formats 7, 8, 10: 30).
C21_PublishedColourOffsets ==
  (hout.kind = "format" /\ hin.pointDataFormat \in {2, 3, 5, 7, 8, 10}) =>
    /\ hout.viewer.present
    /\ hout.viewer.colorOffset = PublishedColorOffset(hin.pointDataFormat)
    /\ hout.viewer.readAt # Undefined =>
         hout.viewer.readAt = hin.recordOffset + PublishedColorOffset(hin.pointDataFormat)

\* a step in which setPointCloud attached a point cloud (every load creates
\* its own THREE.Points object)
attachStep == lodManager'.pointCloud # lodManager.pointCloud

\* C22: setPointCloud stores a clone of the given point set as the original
\* and leaves the displayed buffer at full resolution; a fresh LODManager is
\* at level 0, a re-attach leaves currentLodLevel unchanged, and a resample
\* is started only by a distance sample (a frame), never by the attach.
C22_AttachKeepsLevelAndFullBuffer ==
  /\ [](lodManager.pointCloud = 0 =>
          lodManager.currentLodLevel = 0 /\ lodManager.originalGeometry.null)
  /\ [][/\ attachStep =>
             /\ ~cloudGeometry'.null
             /\ lodManager'.originalGeometry = cloudGeometry'
             /\ lodManager'.currentLodLevel = lodManager.currentLodLevel
             /\ timers' = timers
             /\ hist'.resamples = hist.resamples
        /\ hist'.resamples # hist.resamples => frameStep]_vars

\* a second point cloud attached at a level other than 0, shown in full
C22_Witness ==
  /\ lodManager.pointCloud = 2
  /\ lodManager.currentLodLevel # 0
  /\ hist.resamples >= 1
  /\ ~lodManager.isUpdating
  /\ cloudGeometry = lodManager.originalGeometry
  /\ Len(cloudGeometry.pts) >= 3

\* C23: between two attaches the original buffers are never modified:
\* updateLOD and applyLOD only read originalGeometry, and the buffer a
\* resample produces is the strided copy of the original for its level,
\* whatever levels were visited before.
C23_OriginalReadOnly ==
  [][/\ lodManager'.originalGeometry # lodManager.originalGeometry => attachStep
     /\ Len(timers') > Len(timers) =>
          LET t == timers'[Len(timers')]
          IN  /\ t.positions = lodManager.originalGeometry.pts
              /\ t.level = lodManager'.currentLodLevel
     /\ (Len(timers') < Len(timers) /\ ~attachStep) =>
          LET t == Head(timers)
              n == Len(t.positions)
              b == lodLevels[t.level + 1].pointLimit
              stride == IF n \div b >= 1 THEN n \div b ELSE 1
          IN  cloudGeometry'.pts = Strided(t.positions, stride)]_vars

\* a second resample of the same original, after a first one that reduced
\* the displayed buffer, has finished
C23_Witness ==
  /\ hist.resamples = 2
  /\ timers = <<>> /\ ~lodManager.isUpdating
  /\ lodManager.pointCloud = 1
  /\ lodManager.currentLodLevel = 1
  /\ cloudGeometry = lodManager.originalGeometry
  /\ Len(lodManager.originalGeometry.pts) = 6

\* the finite thresholds of the ladder, by 1-based position
FiniteTiers == 1..(Len(lodLevels) - 1)

\* C24 as stated: a tier's maxDistance is an exclusive upper bound, a
\* distance equal to it (50 on the default ladder) goes to the next tier.
C24_ExclusiveUpperBound ==
  hout.kind = "tier" =>
    \A i \in FiniteTiers :
      hin.d1 = lodLevels[i].maxDistance => hout.level1 = i

\* C24 amended: a tier's maxDistance is an inclusive upper bound, a distance
\* equal to it (50 on the default ladder) is assigned to that tier and the
\* distances just above it to the next one.
C24_InclusiveUpperBound ==
  hout.kind = "tier" =>
    \A i \in FiniteTiers :
      /\ hin.d1 = lodLevels[i].maxDistance => hout.level1 = i - 1
      /\ hin.d1 = lodLevels[i].maxDistance + 1 => hout.level1 = i

\* the distance 100, the second threshold, stays in the second tier
C24_Witness ==
  /\ hout.kind = "tier"
  /\ hin.d1 = lodLevels[2].maxDistance
  /\ hout.level1 = 1

\* C25: whenever the LODManager is attached, not updating, and has processed
\* a distance sample since the last attach, the displayed buffer is the
\* strided copy of the current original for the tier currentLodLevel names
\* (stated for the state right after a frame whose updateLOD passed its guard
\* and left no resample in progress).
C25_DisplayedMatchesLevel ==
  [][(frameStep /\ updateGuard(lodManager) /\ ~lodManager'.isUpdating) =>
       LET pts == lodManager'.originalGeometry.pts
           n == Len(pts)
           b == lodLevels[lodManager'.currentLodLevel + 1].pointLimit
           stride == IF n \div b >= 1 THEN n \div b ELSE 1
       IN  cloudGeometry'.pts = Strided(pts, stride)]_vars

\* ------------------------------------------------------- unbounded frames
\* one animation frame, without the history of the frames so far:
\* requestAnimationFrame keeps calling animate for as long as the viewer is
\* mounted
frame ==
  /\ LET s == updateLOD(Here, distance)
     IN  /\ lodManager' = s.lm
         /\ cloudGeometry' = s.geom
         /\ timers' = s.timers
  /\ UNCHANGED <<currentPointCloudRef, distance, isLoading, loads, hist, hin, hout>>

NextFrames ==
  \/ frame
  \/ timerFires
  \/ orbit
  \/ startLoad
  \/ fileRead
  \/ fileReadFails
  \/ resetView

\* a timer that setTimeout scheduled fires
SpecTimers == Init /\ [][NextFrames]_vars /\ WF_vars(timerFires)

\* and the animation loop keeps delivering frames
SpecFrames == SpecTimers /\ WF_vars(frame)

\* C26: every applyLOD that sets isUpdating eventually finishes and resets
\* it, on the success path and on the error paths, provided the scheduled
\* timers fire; the flag is never set with no resample in progress.
C26_BusyFlagIsReset ==
  /\ [](lodManager.isUpdating => timers # <<>>)
  /\ (lodManager.isUpdating ~> ~lodManager.isUpdating)

\* a resample has run through its timers and installed a reduced buffer
C26_Witness ==
  /\ ~lodManager.isUpdating /\ timers = <<>>
  /\ lodManager.currentLodLevel = 4
  /\ Len(cloudGeometry.pts) < Len(lodManager.originalGeometry.pts)
  /\ Len(cloudGeometry.pts) >= 1

\* the LODManager is attached and the camera distance lies in tier T
settledIn(T) == lodManager.pointCloud # 0 /\ getLodLevelForDistance(distance) = T

\* C27: a tier change that arrives while a resample is in progress is not
\* lost: if the camera distance stays within one tier T from some frame on
\* and frames keep being delivered, then eventually currentLodLevel = T with
\* no resample in progress.
C27_TierChangeNotLost ==
  \A T \in 0..(Len(lodLevels) - 1) :
    <>[]settledIn(T) => <>[](lodManager.currentLodLevel = T /\ ~lodManager.isUpdating)

\* the camera has entered another tier while a resample is in progress
C27_Witness ==
  /\ lodManager.isUpdating /\ timers # <<>>
  /\ getLodLevelForDistance(distance) # lodManager.currentLodLevel
  /\ currentPointCloudRef = lodManager.pointCloud

\* C28: whenever no load is completing, the point cloud the LODManager is
\* attached to is the viewer's current point cloud (currentPointCloudRef); in
\* particular, after resetView has removed the point cloud from the scene, a
\* frame's updateLOD starts no resample until the next successful load.
C28_ManagerFollowsCurrentCloud ==
  [][/\ lodManager'.pointCloud = currentPointCloudRef'
     /\ (frameStep /\ currentPointCloudRef = 0) => hist'.resamples = hist.resamples]_vars

\* C29: the loading state reported through onLoadingChange is true in every
\* state where at least one loadPointCloud call is still in flight and false
\* when none is, for any interleaving of overlapping loads and for loads that
\* succeed, fail, or are rejected for an unsupported extension.
C29_LoadingWhileInFlight ==
  isLoading = (\E l \in 1..Len(loads) : loads[l].status = "reading")

\* ------------------------------------------------- bytes read per record
\* the half-open byte range [from, from + size) one DataView read covers
bytesOf(from, size) == [from |-> from, to |-> from + size]

\* the reads PointCloudViewer's parseLASPoints made for a decoded point:
\* getInt32 at recordOffset, + 4 and + 8 and, when the colour guard passed,
\* getUint16 at recordOffset + colorOffset, + 2 and + 4
readsOf(file, point) ==
  LET recordOffset == file.pointDataOffset + point.rec * file.pointDataRecordLength
      colorAt == recordOffset + colorOffsetOf(file.pointDataFormat)
  IN  {bytesOf(recordOffset, 4), bytesOf(recordOffset + 4, 4), bytesOf(recordOffset + 8, 4)}
        \cup (IF point.rgb
                THEN {bytesOf(colorAt, 2), bytesOf(colorAt + 2, 2), bytesOf(colorAt + 4, 2)}
                ELSE {})

\* the older Three.js decoder: Math.min(header.totalPoints, 2000000)
maxInitialPointsOf_older(totalPoints) == Min(totalPoints, 40 * Unit)

\* the older decoder's Math.max(1, Math.floor(totalPoints / maxInitialPoints))
decodeStep_older(totalPoints) ==
  IF maxInitialPointsOf_older(totalPoints) = 0 THEN 0
  ELSE Max(1, totalPoints \div maxInitialPointsOf_older(totalPoints))

RECURSIVE decodeLoop_older(_, _, _, _)
\* the for loop of the older parseLASPoints: it breaks at a record that ends
\* past the buffer; a RangeError in a coordinate read is caught and the loop
\* breaks or continues, and the next record then ends past the buffer
decodeLoop_older(file, totalPoints, i, points) ==
  IF i < maxInitialPointsOf_older(totalPoints)
    THEN LET recordOffset == file.pointDataOffset + i * file.pointDataRecordLength
             colorAt == colorReadAt(hasColorFormat_older(file.pointDataFormat),
                                    colorOffsetOf_older(file.pointDataFormat),
                                    recordOffset, file.byteLength)
         IN  IF recordOffset + file.pointDataRecordLength > file.byteLength
               THEN points
               ELSE IF ~(/\ readable(file.byteLength, recordOffset, 4)
                         /\ readable(file.byteLength, recordOffset + 4, 4)
                         /\ readable(file.byteLength, recordOffset + 8, 4))
                      THEN points
                      ELSE decodeLoop_older(file, totalPoints, i + decodeStep_older(totalPoints),
                                            Append(points, [rec |-> i, rgb |-> colorAt # Undefined]))
    ELSE points

parseLASPoints_older(file, header) == decodeLoop_older(file, header.totalPoints, 0, <<>>)

\* the reads the older decoder made for a decoded point
readsOf_older(file, point) ==
  LET recordOffset == file.pointDataOffset + point.rec * file.pointDataRecordLength
      colorAt == recordOffset + colorOffsetOf_older(file.pointDataFormat)
  IN  {bytesOf(recordOffset, 4), bytesOf(recordOffset + 4, 4), bytesOf(recordOffset + 8, 4)}
        \cup (IF point.rgb
                THEN {bytesOf(colorAt, 2), bytesOf(colorAt + 2, 2), bytesOf(colorAt + 4, 2)}
                ELSE {})

\* LAS 1.2 files whose buffer holds exactly the records the header declares,
\* of a colourless or colour-bearing format and of a header record length
\* from below the coordinates' 12 bytes to the longest published record
RecordLengths == {8, 12, 20, 26, 30, 34, 36, 38}

ReadFiles ==
  { LasFile("LASF", 2, format, recordLength, count, 227 + count * recordLength, 5) :
      <<format, recordLength, count>> \in
        {0, 2, 3, 5, 6, 7, 8, 10} \X RecordLengths \X (1..(Spread + 1)) }

InitReads ==
  /\ ViewerInit
  /\ hin \in {[kind |-> "reads", file |-> f] : f \in ReadFiles}
  /\ hout = NoRun

\* both decoders applied to the file: for each decoded point its record
\* index and the byte ranges read for it
readsApply ==
  /\ hin.kind = "reads" /\ hout = NoRun
  /\ LET header == parseLASHeader(hin.file)
         points == parseLASPoints(hin.file, header)
         older == parseLASPoints_older(hin.file, header)
     IN  hout' = [kind |-> "reads",
                  viewer |-> [k \in 1..Len(points) |->
                                [rec |-> points[k].rec, reads |-> readsOf(hin.file, points[k])]],
                  older |-> [k \in 1..Len(older) |->
                               [rec |-> older[k].rec, reads |-> readsOf_older(hin.file, older[k])]]]
  /\ UNCHANGED <<viewerVars, hin>>

NextReads == readsApply

SpecReads == InitReads /\ [][NextReads]_vars

\* every read of the decoded point p lies inside p's own record
insideOwnRecord(file, p) ==
  LET recordOffset == file.pointDataOffset + p.rec * file.pointDataRecordLength
  IN  \A r \in p.reads :
        recordOffset <= r.from /\ r.to <= recordOffset + file.pointDataRecordLength

\* C30: every byte parseLASPoints reads for a decoded point (the three 32-bit
\* coordinates and, when present, the three 16-bit colour channels) lies
\* inside that point's own record [recordOffset, recordOffset + recordLength),
\* for every header recordLength and every colour-bearing format code.
C30_ReadsInsideOwnRecord ==
  hout.kind = "reads" =>
    /\ \A k \in 1..Len(hout.viewer) : insideOwnRecord(hin.file, hout.viewer[k])
    /\ \A k \in 1..Len(hout.older) : insideOwnRecord(hin.file, hout.older[k])

====
